---- MODULE Spec2Model ----
(***************************************************************************)
(* Model of CableMonitor (src/detector/monitor.py): the monitoring loop,   *)
(* reading ingestion, timeout check, alert analysis, the event queues and  *)
(* the statistics snapshot.                                                *)
(***************************************************************************)
EXTENDS Integers, Sequences, FiniteSets, TLC

VARIABLES
    mon,        \* the fields of the CableMonitor object
    now,        \* the wall clock, in seconds (datetime.now() / time.time())
    threads,    \* position of every context that runs _monitoring_loop
    fed,        \* history: every reading handed to _process_readings, in order
    snap,       \* the consumer inside get_monitoring_stats: its position and dict
    ticks,      \* number of loop iterations begun
    last_op     \* the operation that made the last step

vars == <<mon, now, threads, fed, snap, ticks, last_op>>

----------------------------------------------------------------------------
(* Bounds of the model *)

MaxFed == 4         \* readings handed to the monitor in one behaviour
MaxBatch == 3       \* readings returned by one simulate_step
MaxTicks == 2       \* loop iterations in one behaviour
MaxClock == 602     \* the clock stops advancing here
MaxStarts == 2      \* contexts that enter _monitoring_loop in one behaviour
SmallBuffer == 2    \* buffer_size of the monitor where eviction is exercised
MaxCallbacks == 2   \* handlers registered in one behaviour
PrefillLen == 98    \* readings of the first batch where the anomaly rate is studied

(* Program constants *)

ConsecutiveAnomaliesRule == 3       \* alert_rules['consecutive_anomalies']
SensorTimeoutRule == 300            \* alert_rules['sensor_timeout'], seconds
RateThresholdNum == 1               \* alert_rules['anomaly_rate_threshold'] = 0.2
RateThresholdDen == 5               \*   as the fraction 1/5
RateWindow == 100                   \* readings the anomaly rate is taken over
RecentReadingsMaxLen == 50          \* deque(maxlen=50) of a sensor state
DefaultBufferSize == 1000           \* buffer_size: int = 1000

----------------------------------------------------------------------------
(* Values *)

NoTime == -1            \* a None where a datetime is expected
NoThread == 0           \* monitoring_thread = None

\* sensor_id values as they arrive: missing (None), an int, or a str
None == <<"NoneType", "None">>
RawSensorIds == {None, <<"int", "7">>, <<"str", "s1">>}

\* str(sensor_id)
Str(raw) == raw[2]

\* What predict_single does with a reading (it depends on the reading only).
Verdicts == {"anomaly", "normal", "raise"}

\* A reading dict. det and score are the keys is_anomaly_detected and
\* anomaly_score, "absent" while the key is not set.
Reading(raw, ts, verdict) ==
    [sensor_id |-> raw, timestamp |-> ts, verdict |-> verdict,
     det |-> "absent", score |-> "absent"]

\* The reading as it was handed in, without the keys ingestion adds.
Raw(r) == [r EXCEPT !.det = "absent", !.score = "absent"]

SeqsUpTo(S, n) == UNION {[1..k -> S] : k \in 0..n}

Last(s, n) == IF Len(s) <= n THEN s ELSE SubSeq(s, Len(s) - n + 1, Len(s))

\* Mutant: a full buffer rejects the new element instead of evicting the oldest.
DequeAppendKeepsOldest(d, x, n) == IF Len(d) >= n THEN d ELSE Append(d, x)

\* Mutant: a deque without maxlen.
DequeAppendUnbounded(d, x, n) == Append(d, x)

\* deque(maxlen=n).append(x)
DequeAppend(d, x, n) == Last(Append(d, x), n)

----------------------------------------------------------------------------
(* CableMonitor.__init__ *)

NewMonitor(buffer_size) ==
    [buffer_size |-> buffer_size,
     is_monitoring |-> FALSE,
     monitoring_thread |-> NoThread,
     network |-> "unset",
     anomaly_detector |-> "unset",
     data_buffer |-> <<>>,
     anomaly_queue |-> <<>>,
     alert_queue |-> <<>>,
     total_readings |-> 0,
     anomalies_detected |-> 0,
     alerts_raised |-> 0,
     start_time |-> NoTime,
     last_reading_time |-> NoTime,
     on_anomaly |-> <<>>,
     on_alert |-> <<>>,
     on_sensor_failure |-> <<>>,
     sensor_states |-> <<>>,
     calls |-> <<>>,        \* history: the callback calls made so far
     anomalies_returned |-> 0,   \* history: events get_recent_anomalies returned
     alerts_returned |-> 0]      \* history: events get_recent_alerts returned

\* The entry _get_sensor_state creates.
NewSensorState(sid) ==
    [id |-> sid, last_seen |-> NoTime, consecutive_anomalies |-> 0,
     recent_readings |-> <<>>, status |-> "unknown"]

\* Position of sid in the sensor_states dict (insertion order), 0 if absent.
SensorIndex(ss, sid) ==
    IF \E i \in DOMAIN ss : ss[i].id = sid
    THEN CHOOSE i \in DOMAIN ss : ss[i].id = sid
    ELSE 0

\* _get_sensor_state: the dict with the entry of sid created when missing.
GetSensorState(ss, sid) ==
    IF SensorIndex(ss, sid) = 0 THEN Append(ss, NewSensorState(sid)) ELSE ss

----------------------------------------------------------------------------
(* Callbacks *)

\* A registered handler either returns or raises.
Handlers == {"returns", "raises"}

\* Mutant: the first handler that raises ends the loop over the handlers.
RunCallbacksStopsAtRaise(m, kind, event) ==
    LET list == m[kind]
        upto == IF \E i \in DOMAIN list : list[i] = "raises"
                THEN CHOOSE i \in DOMAIN list :
                         list[i] = "raises" /\ \A j \in 1..(i - 1) : list[j] # "raises"
                ELSE Len(list)
    IN [m EXCEPT !.calls = @ \o [i \in 1..upto |->
                     [kind |-> kind, handler |-> list[i], pos |-> i, event |-> event]]]

\* for callback in self.callbacks[kind]: try: callback(event) except: log
\* Every handler of the list is called, in order, whether or not one raises.
RunCallbacks(m, kind, event) ==
    LET list == m[kind]
    IN [m EXCEPT !.calls = @ \o [i \in 1..Len(list) |->
                     [kind |-> kind, handler |-> list[i], pos |-> i, event |-> event]]]

----------------------------------------------------------------------------
(* Ingestion *)

\* Mutant: an anomaly adds two to the global counter.
CountAnomalyTwice(m, sid) ==
    LET i == SensorIndex(m.sensor_states, sid)
    IN [m EXCEPT !.anomalies_detected = @ + 2,
                 !.sensor_states[i].consecutive_anomalies = @ + 1]

\* _handle_anomaly up to the point where it builds the event: the counters.
CountAnomaly(m, sid) ==
    LET i == SensorIndex(m.sensor_states, sid)
    IN [m EXCEPT !.anomalies_detected = @ + 1,
                 !.sensor_states[i].consecutive_anomalies = @ + 1]

\* _handle_anomaly(reading, sensor_id) for a reading that has a timestamp.
HandleAnomaly(m, reading, sid) ==
    LET m1 == CountAnomaly(m, sid)
        i == SensorIndex(m1.sensor_states, sid)
        anomaly_event == [timestamp |-> reading.timestamp,
                          sensor_id |-> sid,
                          reading |-> reading,
                          consecutive_count |-> m1.sensor_states[i].consecutive_anomalies]
        m2 == [m1 EXCEPT !.anomaly_queue = Append(@, anomaly_event)]
    IN RunCallbacks(m2, "on_anomaly", anomaly_event)

\* Mutant: predict_single is called whether or not the detector is trained.
DetectedWhenNotReady(m, reading) ==
    IF reading.verdict = "raise" THEN [reading EXCEPT !.det = "False", !.score = "0.0"]
    ELSE IF reading.verdict = "normal" THEN [reading EXCEPT !.det = "False", !.score = "score"]
    ELSE IF reading.timestamp = NoTime
         THEN [reading EXCEPT !.det = "False", !.score = "0.0"]
    ELSE [reading EXCEPT !.det = "True", !.score = "score"]

\* Mutant: the except branch of the detection step does not set the keys.
DetectedKeepsRaised(m, reading) ==
    IF m.anomaly_detector # "trained" THEN reading
    ELSE IF reading.verdict = "raise" THEN reading
    ELSE IF reading.verdict = "normal" THEN [reading EXCEPT !.det = "False", !.score = "score"]
    ELSE IF reading.timestamp = NoTime
         THEN [reading EXCEPT !.det = "False", !.score = "0.0"]
    ELSE [reading EXCEPT !.det = "True", !.score = "score"]

\* The reading with the keys the detection step leaves on it.
Detected(m, reading) ==
    IF m.anomaly_detector # "trained" THEN reading
    ELSE IF reading.verdict = "raise" THEN [reading EXCEPT !.det = "False", !.score = "0.0"]
    ELSE IF reading.verdict = "normal" THEN [reading EXCEPT !.det = "False", !.score = "score"]
    ELSE IF reading.timestamp = NoTime
         \* reading['timestamp'] in _handle_anomaly raises KeyError: the except branch
         THEN [reading EXCEPT !.det = "False", !.score = "0.0"]
    ELSE [reading EXCEPT !.det = "True", !.score = "score"]

\* Lines 156-167: statistics, buffer and sensor state. The reading is stored by
\* reference, so buffer and history show the keys set later in the call.
StoreReading(m, reading, stored, t) ==
    LET sid == Str(reading.sensor_id)
        timestamp == IF reading.timestamp = NoTime THEN t ELSE reading.timestamp
        ss == GetSensorState(m.sensor_states, sid)
        i == SensorIndex(ss, sid)
    IN [m EXCEPT !.total_readings = @ + 1,
                 !.last_reading_time = timestamp,
                 !.data_buffer = DequeAppend(@, stored, m.buffer_size),
                 !.sensor_states = [ss EXCEPT
                     ![i].last_seen = timestamp,
                     ![i].recent_readings = DequeAppend(@, stored, RecentReadingsMaxLen),
                     ![i].status = "active"]]

\* Mutant: a reading without sensor_id still sets last_reading_time.
ProcessSingleReadingTimesMissing(m, reading, t) ==
    IF reading.sensor_id = None THEN [m EXCEPT !.last_reading_time = t]
    ELSE
        LET sid == Str(reading.sensor_id)
            stored == Detected(m, reading)
            m1 == StoreReading(m, reading, stored, t)
            i == SensorIndex(m1.sensor_states, sid)
        IN IF m1.anomaly_detector # "trained" THEN m1
           ELSE IF reading.verdict = "raise" THEN m1
           ELSE IF reading.verdict = "normal"
                THEN [m1 EXCEPT !.sensor_states[i].consecutive_anomalies = 0]
           ELSE IF reading.timestamp = NoTime THEN CountAnomaly(m1, sid)
           ELSE HandleAnomaly(m1, stored, sid)

\* Mutant: the statistics are updated before the sensor_id check.
ProcessSingleReadingCountsMissing(m, reading, t) ==
    IF reading.sensor_id = None THEN [m EXCEPT !.total_readings = @ + 1]
    ELSE
        LET sid == Str(reading.sensor_id)
            stored == Detected(m, reading)
            m1 == StoreReading(m, reading, stored, t)
            i == SensorIndex(m1.sensor_states, sid)
        IN IF m1.anomaly_detector # "trained" THEN m1
           ELSE IF reading.verdict = "raise" THEN m1
           ELSE IF reading.verdict = "normal"
                THEN [m1 EXCEPT !.sensor_states[i].consecutive_anomalies = 0]
           ELSE IF reading.timestamp = NoTime THEN CountAnomaly(m1, sid)
           ELSE HandleAnomaly(m1, stored, sid)

\* _process_single_reading(reading), called at clock value t.
ProcessSingleReading(m, reading, t) ==
    IF reading.sensor_id = None THEN m
    ELSE
        LET sid == Str(reading.sensor_id)
            stored == Detected(m, reading)
            m1 == StoreReading(m, reading, stored, t)
            i == SensorIndex(m1.sensor_states, sid)
        IN IF m1.anomaly_detector # "trained" THEN m1
           ELSE IF reading.verdict = "raise" THEN m1
           ELSE IF reading.verdict = "normal"
                THEN [m1 EXCEPT !.sensor_states[i].consecutive_anomalies = 0]
           ELSE IF reading.timestamp = NoTime THEN CountAnomaly(m1, sid)
           ELSE HandleAnomaly(m1, stored, sid)

\* for reading in readings: _process_single_reading(reading), for the positions
\* lo..hi of readings. The range is processed as its first half, then its
\* second; the test on the counter (it never fails) makes the evaluation finish
\* the first half before it enters the second.
RECURSIVE ProcessRange(_, _, _, _, _)
ProcessRange(m, readings, lo, hi, t) ==
    IF lo > hi THEN m
    ELSE IF lo = hi THEN ProcessSingleReading(m, readings[lo], t)
    ELSE LET mid == (lo + hi) \div 2
             first == ProcessRange(m, readings, lo, mid, t)
         IN IF first.total_readings >= 0
            THEN ProcessRange(first, readings, mid + 1, hi, t)
            ELSE first

\* _process_readings(readings)
ProcessReadings(m, readings, t) == ProcessRange(m, readings, 1, Len(readings), t)

----------------------------------------------------------------------------
(* Timeout check *)

\* _handle_sensor_timeout(sensor_id, timeout_duration) for the i-th sensor
HandleSensorTimeout(m, i, timeout_duration, t) ==
    LET timeout_event == [timestamp |-> t,
                          sensor_id |-> m.sensor_states[i].id,
                          timeout_duration |-> timeout_duration,
                          event_type |-> "sensor_timeout"]
        m1 == [m EXCEPT !.sensor_states[i].status = "timeout"]
    IN RunCallbacks(m1, "on_sensor_failure", timeout_event)

\* Mutant: a sensor is timed out one second late.
TimedOutOffByOne(state, t) ==
    /\ state.last_seen # NoTime
    /\ state.status = "active"
    /\ t - state.last_seen > SensorTimeoutRule + 1

\* Mutant: the check does not look at the status of the sensor.
TimedOutIgnoresStatus(state, t) ==
    /\ state.last_seen # NoTime
    /\ t - state.last_seen > SensorTimeoutRule

\* The condition under which _check_sensor_timeouts handles a sensor state.
TimedOut(state, t) ==
    /\ state.last_seen # NoTime
    /\ state.status = "active"
    /\ t - state.last_seen > SensorTimeoutRule

\* _check_sensor_timeouts: the loop over sensor_states from position i on.
RECURSIVE CheckSensorTimeoutsFrom(_, _, _)
CheckSensorTimeoutsFrom(m, i, t) ==
    IF i > Len(m.sensor_states) THEN m
    ELSE IF TimedOut(m.sensor_states[i], t)
         THEN CheckSensorTimeoutsFrom(
                  HandleSensorTimeout(m, i, t - m.sensor_states[i].last_seen, t), i + 1, t)
         ELSE CheckSensorTimeoutsFrom(m, i + 1, t)

CheckSensorTimeouts(m, t) == CheckSensorTimeoutsFrom(m, 1, t)

----------------------------------------------------------------------------
(* Alerts *)

\* Mutant: the severity map lacks its entries, every type gets the default.
GetAlertSeverityDefault(alert_type) == "medium"

\* _get_alert_severity
GetAlertSeverity(alert_type) ==
    CASE alert_type = "consecutive_anomalies" -> "high"
      [] alert_type = "high_anomaly_rate" -> "medium"
      [] alert_type = "sensor_timeout" -> "high"
      [] alert_type = "critical_sensor_anomaly" -> "critical"
      [] OTHER -> "medium"

\* _raise_alert(alert_type, alert_data) at clock value t; int(time.time()) = t
RaiseAlert(m, alert_type, alert_data, t) ==
    LET alert == [alert_id |-> <<"alert", t, alert_type>>,
                  alert_type |-> alert_type,
                  timestamp |-> t,
                  severity |-> GetAlertSeverity(alert_type),
                  data |-> alert_data]
        m1 == [m EXCEPT !.alerts_raised = @ + 1,
                        !.alert_queue = Append(@, alert)]
    IN RunCallbacks(m1, "on_alert", alert)

\* Mutant: the rule compares with > instead of >=.
ConsecutiveRuleFiresStrict(state) ==
    state.consecutive_anomalies > ConsecutiveAnomaliesRule

\* The condition of the consecutive-anomalies rule for one sensor state.
ConsecutiveRuleFires(state) ==
    state.consecutive_anomalies >= ConsecutiveAnomaliesRule

\* _analyze_alerts, first loop: the sensors from position i on.
RECURSIVE ConsecutiveAlertsFrom(_, _, _)
ConsecutiveAlertsFrom(m, i, t) ==
    IF i > Len(m.sensor_states) THEN m
    ELSE IF ConsecutiveRuleFires(m.sensor_states[i])
         THEN ConsecutiveAlertsFrom(
                  RaiseAlert(m, "consecutive_anomalies",
                             [sensor_id |-> m.sensor_states[i].id,
                              count |-> m.sensor_states[i].consecutive_anomalies,
                              timestamp |-> t], t),
                  i + 1, t)
         ELSE ConsecutiveAlertsFrom(m, i + 1, t)

\* sum(1 for r in recent_data if r.get('is_anomaly_detected', False))
AnomalyCount(recent_data) ==
    Cardinality({k \in DOMAIN recent_data : recent_data[k].det = "True"})

\* Mutant: the rule compares the rate with >= instead of >.
RateRuleFiresAtThreshold(buffer) ==
    /\ Len(buffer) >= RateWindow
    /\ LET recent_data == Last(buffer, RateWindow)
       IN AnomalyCount(recent_data) * RateThresholdDen >= RateThresholdNum * Len(recent_data)

\* The condition of the anomaly-rate rule: anomaly_count / len(recent_data) > 0.2
RateRuleFires(buffer) ==
    /\ Len(buffer) >= RateWindow
    /\ LET recent_data == Last(buffer, RateWindow)
       IN AnomalyCount(recent_data) * RateThresholdDen > RateThresholdNum * Len(recent_data)

\* _analyze_alerts
AnalyzeAlerts(m, t) ==
    LET m1 == ConsecutiveAlertsFrom(m, 1, t)
    IN IF RateRuleFires(m1.data_buffer)
       THEN LET recent_data == Last(m1.data_buffer, RateWindow)
            IN RaiseAlert(m1, "high_anomaly_rate",
                          [rate |-> <<AnomalyCount(recent_data), Len(recent_data)>>,
                           threshold |-> <<RateThresholdNum, RateThresholdDen>>,
                           timestamp |-> t], t)
       ELSE m1

----------------------------------------------------------------------------
(* Statistics *)

\* The keys of the dict get_monitoring_stats builds, in the order it reads them.
StatsKeys == <<"is_monitoring", "uptime_seconds", "total_readings",
               "anomalies_detected", "alerts_raised", "anomaly_rate",
               "active_sensors", "timeout_sensors", "buffer_utilization",
               "last_reading_time">>

Max(a, b) == IF a >= b THEN a ELSE b
Min(a, b) == IF a <= b THEN a ELSE b

\* len([s for s in self.sensor_states.values() if s['status'] == status])
CountStatus(ss, status) == Cardinality({i \in DOMAIN ss : ss[i].status = status})

\* Mutant: the uptime is computed without the check for a missing start_time.
UptimeUnguarded(m, t) == t - m.start_time

\* A quotient a / b (a float in the source) is kept as the fraction <<a, b>>.
Uptime(m, t) == IF m.start_time # NoTime THEN t - m.start_time ELSE 0

\* The value get_monitoring_stats stores under one key, read from the monitor
\* as it is at that moment; uptime was computed at the start of the call.
StatsValue(key, m, uptime) ==
    CASE key = "is_monitoring" -> m.is_monitoring
      [] key = "uptime_seconds" -> uptime
      [] key = "total_readings" -> m.total_readings
      [] key = "anomalies_detected" -> m.anomalies_detected
      [] key = "alerts_raised" -> m.alerts_raised
      [] key = "anomaly_rate" -> <<m.anomalies_detected, Max(1, m.total_readings)>>
      [] key = "active_sensors" -> CountStatus(m.sensor_states, "active")
      [] key = "timeout_sensors" -> CountStatus(m.sensor_states, "timeout")
      [] key = "buffer_utilization" -> <<Len(m.data_buffer), m.buffer_size>>
      [] key = "last_reading_time" -> m.last_reading_time

\* get_monitoring_stats run without interruption at clock value t.
MonitoringStats(m, t) ==
    [key \in {StatsKeys[k] : k \in DOMAIN StatsKeys} |-> StatsValue(key, m, Uptime(m, t))]

\* Fractions: equality and order of the quotients they stand for.
FracEq(f, g) == f[1] * g[2] = g[1] * f[2]
FracLeq(f, g) == f[1] * g[2] <= g[1] * f[2]

----------------------------------------------------------------------------
(* Actions *)


NoSnap == [pc |-> 0, uptime |-> 0, d |-> <<>>]

\* The state after CableMonitor(buffer_size=b) for some b of BufferSizes.
InitWith(BufferSizes) ==
    /\ mon \in {NewMonitor(b) : b \in BufferSizes}
    /\ now = 0
    /\ threads = <<>>
    /\ fed = <<>>
    /\ snap = NoSnap
    /\ ticks = 0
    /\ last_op = [op |-> "init"]

\* The keys of self.callbacks
CallbackKinds == {"on_anomaly", "on_alert", "on_sensor_failure"}

Registered(m) == Len(m.on_anomaly) + Len(m.on_alert) + Len(m.on_sensor_failure)

\* Mutant: an unknown event type is ignored without an error.
AddCallbackIgnoresUnknown(event_type, callback) ==
    /\ IF event_type \in CallbackKinds
       THEN /\ Registered(mon) < MaxCallbacks
            /\ mon' = [mon EXCEPT ![event_type] = Append(@, callback)]
       ELSE mon' = mon
    /\ last_op' = [op |-> "add_callback", event_type |-> event_type,
                    callback |-> callback, raised |-> "no"]
    /\ UNCHANGED <<now, threads, fed, snap, ticks>>

\* add_callback(event_type, callback): ValueError for an unknown event type
AddCallback(event_type, callback) ==
    /\ IF event_type \in CallbackKinds
       THEN /\ Registered(mon) < MaxCallbacks
            /\ mon' = [mon EXCEPT ![event_type] = Append(@, callback)]
            /\ last_op' = [op |-> "add_callback", event_type |-> event_type,
                            callback |-> callback, raised |-> "no"]
       ELSE /\ mon' = mon
            /\ last_op' = [op |-> "add_callback", event_type |-> event_type,
                            callback |-> callback, raised |-> "ValueError"]
    /\ UNCHANGED <<now, threads, fed, snap, ticks>>

\* Time passes while no modelled context takes a step.
PassTime(ClockSteps) ==
    /\ \E d \in ClockSteps :
          /\ now + d <= MaxClock
          /\ now' = now + d
    /\ last_op' = [op |-> "pass_time"]
    /\ UNCHANGED <<mon, threads, fed, snap, ticks>>

\* Mutant: start_monitoring without the check of is_monitoring.
StartMonitoringRestarts(network, detector, background) ==
    /\ Len(threads) < MaxStarts
    /\ threads' = Append(threads, "while")
    /\ mon' = [mon EXCEPT
           !.network = network,
           !.anomaly_detector = detector,
           !.is_monitoring = TRUE,
           !.start_time = now,
           !.monitoring_thread = IF background THEN Len(threads) + 1 ELSE @]
    /\ last_op' = [op |-> "start_monitoring", was_monitoring |-> mon.is_monitoring]
    /\ UNCHANGED <<now, fed, snap, ticks>>

\* start_monitoring(network, anomaly_detector, background)
StartMonitoring(network, detector, background) ==
    /\ mon.is_monitoring \/ Len(threads) < MaxStarts
    /\ IF mon.is_monitoring
       THEN UNCHANGED <<mon, threads>>
       ELSE /\ threads' = Append(threads, "while")
            /\ mon' = [mon EXCEPT
                   !.network = network,
                   !.anomaly_detector = detector,
                   !.is_monitoring = TRUE,
                   !.start_time = now,
                   !.monitoring_thread = IF background THEN Len(threads) + 1 ELSE @]
    /\ last_op' = [op |-> "start_monitoring", was_monitoring |-> mon.is_monitoring]
    /\ UNCHANGED <<now, fed, snap, ticks>>

\* Mutant: stop_monitoring flips the flag instead of clearing it.
StopMonitoringToggles ==
    /\ mon' = [mon EXCEPT !.is_monitoring = ~@]
    /\ last_op' = [op |-> "stop_monitoring", was_monitoring |-> mon.is_monitoring]
    /\ UNCHANGED <<now, threads, fed, snap, ticks>>

\* stop_monitoring(): clears the flag, then waits at most 5 s for the thread
StopMonitoring ==
    /\ mon' = [mon EXCEPT !.is_monitoring = FALSE]
    /\ last_op' = [op |-> "stop_monitoring", was_monitoring |-> mon.is_monitoring]
    /\ UNCHANGED <<now, threads, fed, snap, ticks>>

\* The readings simulate_step can return at clock value t: one per sensor id
\* and verdict of the classifier, and one without sensor_id.
ReadingsAt(t, Vs) ==
    {Reading(raw, t, v) : raw \in RawSensorIds \ {None}, v \in Vs}
        \cup {Reading(None, t, "normal")}

\* Mutant: the loop condition is not tested (while True).
LoopIngestIgnoresStop(i, Batches, limit) ==
    /\ threads[i] = "while"
    /\ ticks < MaxTicks
    /\ \E readings \in Batches :
          /\ Len(fed) + Len(readings) <= limit
          /\ fed' = fed \o readings
          /\ mon' = ProcessReadings(mon, readings, now)
          /\ last_op' = [op |-> "ingest", thread |-> i, count |-> Len(readings)]
    /\ threads' = [threads EXCEPT ![i] = "timeouts"]
    /\ ticks' = ticks + 1
    /\ UNCHANGED <<now, snap>>

\* while self.is_monitoring: readings = simulate_step(); _process_readings(readings)
LoopIngest(i, Batches, limit) ==
    /\ threads[i] = "while"
    /\ mon.is_monitoring
    /\ ticks < MaxTicks
    /\ \E readings \in Batches :
          /\ Len(fed) + Len(readings) <= limit
          /\ fed' = fed \o readings
          /\ mon' = ProcessReadings(mon, readings, now)
          /\ last_op' = [op |-> "ingest", thread |-> i, count |-> Len(readings)]
    /\ threads' = [threads EXCEPT ![i] = "timeouts"]
    /\ ticks' = ticks + 1
    /\ UNCHANGED <<now, snap>>

\* _process_readings raises after it has processed readings: the next element
\* of the batch is not a dict and reading.get fails, outside the try of the
\* classifier. The rest of the batch is dropped; except Exception, time.sleep(1).
LoopIngestRaises(i, Batches, limit) ==
    /\ threads[i] = "while"
    /\ mon.is_monitoring
    /\ ticks < MaxTicks
    /\ \E readings \in Batches :
          /\ Len(fed) + Len(readings) <= limit
          /\ fed' = fed \o readings
          /\ mon' = ProcessReadings(mon, readings, now)
          /\ last_op' = [op |-> "ingest_raised", thread |-> i, count |-> Len(readings)]
    /\ threads' = [threads EXCEPT ![i] = "pause"]
    /\ ticks' = ticks + 1
    /\ UNCHANGED <<now, snap>>

\* Mutant: the exception is not caught and ends the loop.
LoopFetchRaisesEscapes(i) ==
    /\ threads[i] = "while"
    /\ mon.is_monitoring
    /\ ticks < MaxTicks
    /\ threads' = [threads EXCEPT ![i] = "exited"]
    /\ ticks' = ticks + 1
    /\ last_op' = [op |-> "fetch_raised", thread |-> i]
    /\ UNCHANGED <<mon, now, fed, snap>>

\* simulate_step raises: except Exception, then time.sleep(1)
LoopFetchRaises(i) ==
    /\ threads[i] = "while"
    /\ mon.is_monitoring
    /\ ticks < MaxTicks
    /\ threads' = [threads EXCEPT ![i] = "pause"]
    /\ ticks' = ticks + 1
    /\ last_op' = [op |-> "fetch_raised", thread |-> i]
    /\ UNCHANGED <<mon, now, fed, snap>>

\* while self.is_monitoring: false, the loop returns
LoopExit(i) ==
    /\ threads[i] = "while"
    /\ ~mon.is_monitoring
    /\ threads' = [threads EXCEPT ![i] = "exited"]
    /\ last_op' = [op |-> "loop_exit", thread |-> i]
    /\ UNCHANGED <<mon, now, fed, snap, ticks>>

\* The monitor with only the first k entries of sensor_states, and the result
\* of a loop over those entries put back in front of the other entries.
FirstSensors(m, k) == [m EXCEPT !.sensor_states = SubSeq(@, 1, k)]

WithOtherSensors(r, m, k) ==
    [r EXCEPT !.sensor_states = @ \o SubSeq(m.sensor_states, k + 1, Len(m.sensor_states))]

\* self._check_sensor_timeouts() raises at an entry of sensor_states (the
\* subtraction current_time - last_seen fails for a timestamp that is not a
\* datetime) after it has handled the k entries before it.
LoopTimeoutsRaises(i) ==
    /\ threads[i] = "timeouts"
    /\ \E k \in 0..(Len(mon.sensor_states) - 1) :
          /\ mon.sensor_states[k + 1].status = "active"
          /\ mon' = WithOtherSensors(CheckSensorTimeouts(FirstSensors(mon, k), now), mon, k)
    /\ threads' = [threads EXCEPT ![i] = "pause"]
    /\ last_op' = [op |-> "check_sensor_timeouts_raised", thread |-> i]
    /\ UNCHANGED <<now, fed, snap, ticks>>

\* Mutant: the loop goes from the timeout check straight to its sleep.
LoopTimeoutsSkipsAnalysis(i) ==
    /\ threads[i] = "timeouts"
    /\ mon' = CheckSensorTimeouts(mon, now)
    /\ threads' = [threads EXCEPT ![i] = "sleep"]
    /\ last_op' = [op |-> "check_sensor_timeouts", thread |-> i]
    /\ UNCHANGED <<now, fed, snap, ticks>>

\* self._check_sensor_timeouts()
LoopTimeouts(i) ==
    /\ threads[i] = "timeouts"
    /\ mon' = CheckSensorTimeouts(mon, now)
    /\ threads' = [threads EXCEPT ![i] = "alerts"]
    /\ last_op' = [op |-> "check_sensor_timeouts", thread |-> i]
    /\ UNCHANGED <<now, fed, snap, ticks>>

\* self._analyze_alerts() raises in its loop over sensor_states after it has
\* looked at the k entries before the one where it fails.
LoopAlertsRaises(i) ==
    /\ threads[i] = "alerts"
    /\ \E k \in 0..(Len(mon.sensor_states) - 1) :
          mon' = WithOtherSensors(ConsecutiveAlertsFrom(FirstSensors(mon, k), 1, now), mon, k)
    /\ threads' = [threads EXCEPT ![i] = "pause"]
    /\ last_op' = [op |-> "analyze_alerts_raised", thread |-> i]
    /\ UNCHANGED <<now, fed, snap, ticks>>

\* self._analyze_alerts()
LoopAlerts(i) ==
    /\ threads[i] = "alerts"
    /\ mon' = AnalyzeAlerts(mon, now)
    /\ threads' = [threads EXCEPT ![i] = "sleep"]
    /\ last_op' = [op |-> "analyze_alerts", thread |-> i]
    /\ UNCHANGED <<now, fed, snap, ticks>>

\* time.sleep(self.monitoring_interval), or time.sleep(1) after an exception
LoopSleep(i, ClockSteps) ==
    /\ threads[i] \in {"sleep", "pause"}
    /\ \E d \in ClockSteps :
          /\ now + d <= MaxClock
          /\ now' = now + d
    /\ threads' = [threads EXCEPT ![i] = "while"]
    /\ last_op' = [op |-> "sleep", thread |-> i]
    /\ UNCHANGED <<mon, fed, snap, ticks>>

\* get_monitoring_stats() run without interruption
GetMonitoringStats ==
    /\ snap.pc = 0
    /\ last_op' = [op |-> "get_monitoring_stats", stats |-> MonitoringStats(mon, now)]
    /\ UNCHANGED <<mon, now, threads, fed, snap, ticks>>

\* get_monitoring_stats() called from a context other than the loop's, one
\* read of the monitor at a time: first current_time and uptime ...
StatsBegin ==
    /\ snap.pc = 0
    /\ snap' = [pc |-> 1, uptime |-> Uptime(mon, now), d |-> <<>>]
    /\ last_op' = [op |-> "stats_begin"]
    /\ UNCHANGED <<mon, now, threads, fed, ticks>>

\* ... then the entries of the returned dict in the order they are written; the
\* call returns after the last one.
StatsRead ==
    /\ snap.pc \in DOMAIN StatsKeys
    /\ LET key == StatsKeys[snap.pc]
           d == snap.d @@ (key :> StatsValue(key, mon, snap.uptime))
       IN IF snap.pc < Len(StatsKeys)
          THEN /\ snap' = [snap EXCEPT !.pc = @ + 1, !.d = d]
               /\ last_op' = [op |-> "stats_read"]
          ELSE /\ snap' = NoSnap
               /\ last_op' = [op |-> "get_monitoring_stats", stats |-> d]
    /\ UNCHANGED <<mon, now, threads, fed, ticks>>

\* get_sensor_summary() called from a context other than the loop's, one step
\* of its for loop at a time. The call creates the iterator of
\* sensor_states.items(), which remembers the size of the dict ...
SummaryBegin ==
    /\ snap.pc = 0
    /\ snap' = [pc |-> -1, used |-> Len(mon.sensor_states), pos |-> 0, d |-> <<>>]
    /\ last_op' = [op |-> "summary_begin"]
    /\ UNCHANGED <<mon, now, threads, fed, ticks>>

\* ... and every step of the iterator first compares that size with the size
\* the dict has now: it raises RuntimeError (dictionary changed size during
\* iteration) when they differ, else it yields the next entry, whose summary
\* is added, or ends the loop, and the call returns the summary.
SummaryNext ==
    /\ snap.pc = -1
    /\ IF Len(mon.sensor_states) # snap.used
       THEN /\ snap' = NoSnap
            /\ last_op' = [op |-> "get_sensor_summary", raised |-> "RuntimeError",
                            summary |-> <<>>]
       ELSE IF snap.pos < snap.used
       THEN LET state == mon.sensor_states[snap.pos + 1]
                entry == [sensor_id |-> state.id,
                          status |-> state.status,
                          last_seen |-> state.last_seen,
                          consecutive_anomalies |-> state.consecutive_anomalies,
                          recent_reading_count |-> Len(state.recent_readings)]
            IN /\ snap' = [snap EXCEPT !.pos = @ + 1, !.d = Append(@, entry)]
               /\ last_op' = [op |-> "summary_next"]
       ELSE /\ snap' = NoSnap
            /\ last_op' = [op |-> "get_sensor_summary", raised |-> "no",
                            summary |-> snap.d]
    /\ UNCHANGED <<mon, now, threads, fed, ticks>>

\* Mutant: the newest events are taken instead of the oldest.
RECURSIVE GetRecentNewest(_, _, _)
GetRecentNewest(q, got, limit) ==
    IF Len(got) < limit /\ q # <<>>
    THEN GetRecentNewest(SubSeq(q, 1, Len(q) - 1), Append(got, q[Len(q)]), limit)
    ELSE [returned |-> got, queue |-> q]

\* while len(got) < limit and not q.empty(): got.append(q.get_nowait())
RECURSIVE GetRecent(_, _, _)
GetRecent(q, got, limit) ==
    IF Len(got) < limit /\ q # <<>>
    THEN GetRecent(Tail(q), Append(got, Head(q)), limit)
    ELSE [returned |-> got, queue |-> q]

\* get_recent_anomalies(limit)
GetRecentAnomalies(limit) ==
    /\ LET r == GetRecent(mon.anomaly_queue, <<>>, limit)
       IN /\ mon' = [mon EXCEPT !.anomaly_queue = r.queue,
                                 !.anomalies_returned = @ + Len(r.returned)]
          /\ last_op' = [op |-> "get_recent_anomalies", limit |-> limit,
                          returned |-> r.returned]
    /\ UNCHANGED <<now, threads, fed, snap, ticks>>

\* get_recent_alerts(limit)
GetRecentAlerts(limit) ==
    /\ LET r == GetRecent(mon.alert_queue, <<>>, limit)
       IN /\ mon' = [mon EXCEPT !.alert_queue = r.queue,
                                 !.alerts_returned = @ + Len(r.returned)]
          /\ last_op' = [op |-> "get_recent_alerts", limit |-> limit,
                          returned |-> r.returned]
    /\ UNCHANGED <<now, threads, fed, snap, ticks>>

\* monitor._process_readings(readings) called by a context other than the
\* loop's (test_system.py feeds the monitor this way).
ProcessReadingsCall(Batches, limit) ==
    /\ \E readings \in Batches :
          /\ Len(fed) + Len(readings) <= limit
          /\ fed' = fed \o readings
          /\ mon' = ProcessReadings(mon, readings, now)
          /\ last_op' = [op |-> "process_readings", count |-> Len(readings)]
    /\ UNCHANGED <<now, threads, snap, ticks>>

\* One step of the i-th context running _monitoring_loop, with a network
\* whose simulate_step does not raise.
Loop(i) ==
    \/ LoopIngest(i, SeqsUpTo(ReadingsAt(now, {"anomaly", "normal"}), MaxBatch), MaxFed)
    \/ LoopExit(i)
    \/ LoopTimeouts(i)
    \/ LoopAlerts(i)
    \/ LoopSleep(i, {1})

Init == InitWith({SmallBuffer})

\* The data path: one monitoring session on a background thread with a trained
\* detector; start_monitoring is called once.
Next ==
    \/ threads = <<>> /\ StartMonitoring("network", "trained", TRUE)
    \/ StopMonitoring
    \/ \E i \in DOMAIN threads : Loop(i)

Spec == Init /\ [][Next]_vars

\* The lifecycle: sessions are started in the background or the foreground
\* and stopped, time passes between the calls, and statistics are read. The
\* detector is not trained, so no reading is classified.
LifeReadings == {Reading(<<"str", "s1">>, now, "normal")}

LoopLife(i) ==
    \/ LoopIngest(i, SeqsUpTo(LifeReadings, 1), MaxFed)
    \/ LoopFetchRaises(i)
    \/ LoopExit(i)
    \/ LoopTimeouts(i)
    \/ LoopAlerts(i)
    \/ LoopSleep(i, {0})

NextLife ==
    \/ \E b \in BOOLEAN : StartMonitoring("network", "untrained", b)
    \/ StopMonitoring
    \/ \E i \in DOMAIN threads : LoopLife(i)
    \/ PassTime({300})
    \/ GetMonitoringStats

SpecLife == Init /\ [][NextLife]_vars

\* Timeouts: handlers for sensor failures (which raise) are registered, one
\* session runs with an untrained detector, and minutes pass between the steps. A reading carries
\* the time of the step or the time the network was created (0).
TimeoutReadings ==
    {Reading(raw, ts, "normal") : raw \in RawSensorIds \ {None}, ts \in {0, now}}

LoopTimeout(i) ==
    \/ LoopIngest(i, SeqsUpTo(TimeoutReadings, 1), MaxFed)
    \/ LoopExit(i)
    \/ LoopTimeouts(i)
    \/ LoopAlerts(i)
    \/ LoopSleep(i, {0})

NextTimeout ==
    \/ AddCallback("on_sensor_failure", "raises")
    \/ threads = <<>> /\ StartMonitoring("network", "untrained", TRUE)
    \/ StopMonitoring
    \/ \E i \in DOMAIN threads : LoopTimeout(i)
    \/ PassTime({300, 301})

SpecTimeout == Init /\ [][NextTimeout]_vars

\* The anomaly rate: a monitor with the default buffer size whose session has
\* ingested a first batch of PrefillLen readings of one sensor, the oldest a of
\* them anomalous, and is about to run the timeout check of that tick.
Prefill(a) ==
    [k \in 1..PrefillLen |->
        Reading(<<"str", "s1">>, 0, IF k <= a THEN "anomaly" ELSE "normal")]

StartedMonitor ==
    [NewMonitor(DefaultBufferSize) EXCEPT
        !.network = "network", !.anomaly_detector = "trained",
        !.is_monitoring = TRUE, !.start_time = 0, !.monitoring_thread = 1]

InitRate ==
    /\ \E a \in {19, 20, 21} :
          /\ mon = ProcessReadings(StartedMonitor, Prefill(a), 0)
          /\ fed = Prefill(a)
    /\ now = 0
    /\ threads = <<"timeouts">>
    /\ snap = NoSnap
    /\ ticks = 1
    /\ last_op = [op |-> "ingest", thread |-> 1, count |-> PrefillLen]

RateReadings == {Reading(<<"str", "s1">>, now, v) : v \in {"anomaly", "normal"}}

LoopRate(i) ==
    \/ LoopIngest(i, SeqsUpTo(RateReadings, MaxBatch), PrefillLen + MaxFed)
    \/ LoopExit(i)
    \/ LoopTimeouts(i)
    \/ LoopAlerts(i)
    \/ LoopSleep(i, {1})

NextRate ==
    \/ StopMonitoring
    \/ \E i \in DOMAIN threads : LoopRate(i)

SpecRate == InitRate /\ [][NextRate]_vars

\* A consumer reads the statistics while the loop of one session, on its own
\* thread, ingests readings of one sensor.
ConcReadings == {Reading(<<"str", "s1">>, now, v) : v \in {"anomaly", "normal"}}

LoopConc(i) ==
    \/ LoopIngest(i, SeqsUpTo(ConcReadings, 1), MaxFed)
    \/ LoopExit(i)
    \/ LoopTimeouts(i)
    \/ LoopAlerts(i)
    \/ LoopSleep(i, {1})

NextConc ==
    \/ threads = <<>> /\ StartMonitoring("network", "trained", TRUE)
    \/ StopMonitoring
    \/ \E i \in DOMAIN threads : LoopConc(i)
    \/ StatsBegin
    \/ StatsRead

SpecConc == Init /\ [][NextConc]_vars

\* Callbacks: handlers that return or raise are registered for the known event
\* types and for one that is not known, before and while one session ingests
\* batches of anomalous readings of one sensor, empty or of MaxBatch readings.
EventTypes == CallbackKinds \cup {"on_unknown"}

CallbackReadings == {Reading(<<"str", "s1">>, now, "anomaly")}

LoopCallbacks(i) ==
    \/ LoopIngest(i, {<<>>} \cup [1..MaxBatch -> CallbackReadings], MaxFed)
    \/ LoopExit(i)
    \/ LoopTimeouts(i)
    \/ LoopAlerts(i)
    \/ LoopSleep(i, {1, SensorTimeoutRule + 1})

NextCallbacks ==
    \/ \E e \in EventTypes, h \in Handlers : AddCallback(e, h)
    \/ threads = <<>> /\ StartMonitoring("network", "trained", TRUE)
    \/ StopMonitoring
    \/ \E i \in DOMAIN threads : LoopCallbacks(i)

SpecCallbacks == Init /\ [][NextCallbacks]_vars

\* The event queues: one session ingests batches of anomalous readings, each
\* batch empty or MaxBatch readings of one of two sensors, while a consumer
\* takes events from the queues between the steps of the loop.
QueueReadings == {Reading(raw, now, "anomaly") : raw \in RawSensorIds \ {None}}

QueueBatches == {<<>>} \cup UNION {[1..MaxBatch -> {r}] : r \in QueueReadings}

Limits == {-1, 0, 1, 2}

LoopQueues(i) ==
    \/ LoopIngest(i, QueueBatches, 2 * MaxBatch)
    \/ LoopExit(i)
    \/ LoopTimeouts(i)
    \/ LoopAlerts(i)
    \/ LoopSleep(i, {1})

NextQueues ==
    \/ threads = <<>> /\ StartMonitoring("network", "trained", TRUE)
    \/ StopMonitoring
    \/ \E i \in DOMAIN threads : LoopQueues(i)
    \/ \E limit \in Limits : GetRecentAnomalies(limit)
    \/ \E limit \in Limits : GetRecentAlerts(limit)

SpecQueues == Init /\ [][NextQueues]_vars

\* The loop: one session on a background thread in which every phase of a tick
\* can raise; the batches hold up to MaxBatch anomalous readings of two sensors.
LoopReadings == {Reading(raw, now, "anomaly") : raw \in RawSensorIds \ {None}}

LoopBatches == SeqsUpTo(LoopReadings, MaxBatch)

LoopPhases(i) ==
    \/ LoopIngest(i, LoopBatches, MaxFed)
    \/ LoopIngestRaises(i, LoopBatches, MaxFed)
    \/ LoopFetchRaises(i)
    \/ LoopExit(i)
    \/ LoopTimeouts(i)
    \/ LoopTimeoutsRaises(i)
    \/ LoopAlerts(i)
    \/ LoopAlertsRaises(i)
    \/ LoopSleep(i, {1})

NextLoop ==
    \/ threads = <<>> /\ StartMonitoring("network", "trained", TRUE)
    \/ StopMonitoring
    \/ \E i \in DOMAIN threads : LoopPhases(i)

SpecLoop == Init /\ [][NextLoop]_vars

\* The thread of the loop is scheduled again and again, and every phase and
\* sleep it is in terminates.
FairLoop == SpecLoop /\ WF_vars(\E i \in DOMAIN threads : LoopPhases(i))

\* The detector: readings of one sensor for which predict_single answers
\* anomalous, answers normal or raises are fed to a monitor that has no
\* detector yet (before its first start), then ingested by one session whose
\* detector is trained or not; a handler for anomalies may be registered.
DetectorReadings == {Reading(<<"str", "s1">>, now, v) : v \in Verdicts}

DetectorBatches == SeqsUpTo(DetectorReadings, MaxBatch)

LoopDetector(i) ==
    \/ LoopIngest(i, DetectorBatches, MaxFed)
    \/ LoopExit(i)
    \/ LoopTimeouts(i)
    \/ LoopAlerts(i)
    \/ LoopSleep(i, {1})

NextDetector ==
    \/ threads = <<>> /\ AddCallback("on_anomaly", "returns")
    \/ threads = <<>> /\ ProcessReadingsCall(SeqsUpTo(DetectorReadings, 1), MaxFed)
    \/ threads = <<>> /\ \E d \in {"untrained", "trained"} : StartMonitoring("network", d, TRUE)
    \/ StopMonitoring
    \/ \E i \in DOMAIN threads : LoopDetector(i)

SpecDetector == Init /\ [][NextDetector]_vars

\* The sensor summary: a consumer context calls get_sensor_summary while the
\* loop of one session ingests readings of two sensors, one reading a tick.
SummaryReadings == {Reading(raw, now, "normal") : raw \in RawSensorIds \ {None}}

LoopSummary(i) ==
    \/ LoopIngest(i, SeqsUpTo(SummaryReadings, 1), MaxFed)
    \/ LoopExit(i)
    \/ LoopTimeouts(i)
    \/ LoopAlerts(i)
    \/ LoopSleep(i, {1})

NextSummary ==
    \/ threads = <<>> /\ StartMonitoring("network", "trained", TRUE)
    \/ StopMonitoring
    \/ \E i \in DOMAIN threads : LoopSummary(i)
    \/ SummaryBegin
    \/ SummaryNext

SpecSummary == Init /\ [][NextSummary]_vars

\* The foreground session: start_monitoring(network, detector, background=False)
\* runs _monitoring_loop in the context of its caller, so that context is the
\* loop's context and the call has returned when the loop has been left. Only
\* another context can call stop_monitoring meanwhile.
\* The ticks go on after the tick counter, a history variable, has reached its
\* bound: they are ticks in which simulate_step yields no reading and no time
\* is counted for the sleep.
ForegroundReadings == {Reading(raw, now, "normal") : raw \in RawSensorIds \ {None}}

LoopIngestIdle(i) ==
    /\ threads[i] = "while"
    /\ mon.is_monitoring
    /\ ticks = MaxTicks
    /\ mon' = ProcessReadings(mon, <<>>, now)
    /\ threads' = [threads EXCEPT ![i] = "timeouts"]
    /\ last_op' = [op |-> "ingest", thread |-> i, count |-> 0]
    /\ UNCHANGED <<now, fed, snap, ticks>>

LoopForeground(i) ==
    \/ LoopIngest(i, SeqsUpTo(ForegroundReadings, 1), MaxFed)
    \/ LoopIngestIdle(i)
    \/ LoopFetchRaises(i)
    \/ LoopExit(i)
    \/ LoopTimeouts(i)
    \/ LoopAlerts(i)
    \/ LoopSleep(i, {0})

NextForeground ==
    \/ threads = <<>> /\ StartMonitoring("network", "trained", FALSE)
    \/ threads # <<>> /\ StopMonitoring
    \/ \E i \in DOMAIN threads : LoopForeground(i)

SpecForeground == Init /\ [][NextForeground]_vars

\* The caller's context goes on running, and every phase and sleep terminates.
FairForeground == SpecForeground /\ WF_vars(\E i \in DOMAIN threads : LoopForeground(i))

\* The events: anomalous readings of two sensors, one of them a reading that
\* has no timestamp key, are ingested one a tick by one session while a
\* consumer drains the two queues.
EventReadings == QueueReadings \cup {Reading(<<"str", "s1">>, NoTime, "anomaly")}

LoopEvents(i) ==
    \/ LoopIngest(i, SeqsUpTo(EventReadings, 1), MaxFed)
    \/ LoopExit(i)
    \/ LoopTimeouts(i)
    \/ LoopAlerts(i)
    \/ LoopSleep(i, {1})

NextEvents ==
    \/ threads = <<>> /\ StartMonitoring("network", "trained", TRUE)
    \/ StopMonitoring
    \/ \E i \in DOMAIN threads : LoopEvents(i)
    \/ \E limit \in Limits : GetRecentAnomalies(limit)
    \/ \E limit \in Limits : GetRecentAlerts(limit)

SpecEvents == Init /\ [][NextEvents]_vars

\* Readings without sensor_id: batches of an anomalous reading of one sensor,
\* a normal reading of another and a reading that has no sensor_id, in any
\* order, are ingested by one session with a trained detector.
MissingReadings ==
    {Reading(<<"str", "s1">>, now, "anomaly"), Reading(<<"int", "7">>, now, "normal"),
     Reading(None, now, "normal")}

LoopMissing(i) ==
    \/ LoopIngest(i, SeqsUpTo(MissingReadings, MaxBatch), MaxFed)
    \/ LoopExit(i)
    \/ LoopTimeouts(i)
    \/ LoopAlerts(i)
    \/ LoopSleep(i, {1})

NextMissing ==
    \/ threads = <<>> /\ StartMonitoring("network", "trained", TRUE)
    \/ StopMonitoring
    \/ \E i \in DOMAIN threads : LoopMissing(i)

SpecMissing == Init /\ [][NextMissing]_vars

----------------------------------------------------------------------------
(* Histories the properties are stated over *)

\* The readings with a sensor_id handed in so far, as they were handed in.
ValidFed == SelectSeq(fed, LAMBDA r : r.sensor_id # None)

\* The readings of sensor sid handed in so far.
FedOf(sid) == SelectSeq(ValidFed, LAMBDA r : Str(r.sensor_id) = sid)

\* Length of the run of anomalous readings that ends the sequence s.
RECURSIVE TrailingAnomalies(_)
TrailingAnomalies(s) ==
    IF s = <<>> \/ s[Len(s)].verdict # "anomaly" THEN 0
    ELSE 1 + TrailingAnomalies(SubSeq(s, 1, Len(s) - 1))

\* The alerts the step under consideration appended to the alert queue.
NewAlerts == SubSeq(mon'.alert_queue, Len(mon.alert_queue) + 1, Len(mon'.alert_queue))

\* The callback calls the step under consideration made.
NewCalls == SubSeq(mon'.calls, Len(mon.calls) + 1, Len(mon'.calls))

CountSeq(s, P(_)) == Cardinality({k \in DOMAIN s : P(s[k])})

----------------------------------------------------------------------------
(* Properties *)

\* C1: total_readings equals the number of readings handed to
\* _process_readings so far that carry a sensor_id; readings without one are
\* not counted, over any number of batches.
C1_TotalCountsValid ==
    mon.total_readings = Len(ValidFed)

\* C1 witness: several batches were ingested, with and without sensor_id.
C1_Witness ==
    /\ ticks >= 2
    /\ Len(ValidFed) >= 2
    /\ Len(fed) > Len(ValidFed)
    /\ mon.total_readings = 2

\* C4: data_buffer holds the most recent min(n, capacity) valid readings, in
\* the order they were ingested.
C4_BufferHoldsMostRecent ==
    /\ Len(mon.data_buffer) = Min(Len(ValidFed), mon.buffer_size)
    /\ [k \in DOMAIN mon.data_buffer |-> Raw(mon.data_buffer[k])]
           = Last(ValidFed, mon.buffer_size)

\* C4 witness: more readings than the capacity were ingested and the buffer
\* holds two different ones.
C4_Witness ==
    /\ Len(ValidFed) > mon.buffer_size
    /\ Len(mon.data_buffer) = mon.buffer_size
    /\ mon.data_buffer[1] # mon.data_buffer[Len(mon.data_buffer)]
    /\ Raw(mon.data_buffer[1]) # ValidFed[1]

\* The consecutive-anomalies alerts among alerts that name sensor sid.
ConsecutiveAlertsFor(alerts, sid) ==
    CountSeq(alerts, LAMBDA a : /\ a.alert_type = "consecutive_anomalies"
                                /\ a.data.sensor_id = sid)

\* C2: every alert analysis raises exactly one consecutive_anomalies alert for
\* each sensor whose counter is at or above the threshold and none for the
\* others, whether or not readings arrived since the last analysis.
C2_OneConsecutiveAlertPerTick ==
    [][last_op'.op = "analyze_alerts" =>
          \A k \in DOMAIN mon.sensor_states :
              ConsecutiveAlertsFor(NewAlerts, mon.sensor_states[k].id)
                  = IF mon.sensor_states[k].consecutive_anomalies >= ConsecutiveAnomaliesRule
                    THEN 1 ELSE 0]_vars

\* C2 witness: a sensor at the threshold was alerted twice with the same count
\* (no reading of it arrived in between) while another sensor stayed below.
C2_Witness ==
    /\ last_op.op = "analyze_alerts"
    /\ \E i, j \in DOMAIN mon.alert_queue :
          /\ i < j
          /\ mon.alert_queue[i].alert_type = "consecutive_anomalies"
          /\ mon.alert_queue[j].alert_type = "consecutive_anomalies"
          /\ mon.alert_queue[i].data.sensor_id = mon.alert_queue[j].data.sensor_id
          /\ mon.alert_queue[i].data.count = mon.alert_queue[j].data.count
          /\ mon.alert_queue[i].timestamp < mon.alert_queue[j].timestamp
    /\ \E k \in DOMAIN mon.sensor_states :
          /\ mon.sensor_states[k].consecutive_anomalies < ConsecutiveAnomaliesRule
          /\ ConsecutiveAlertsFor(mon.alert_queue, mon.sensor_states[k].id) = 0

\* C5: the buffer_utilization of get_monitoring_stats lies in [0, 1] and equals
\* min(valid readings ever ingested, capacity) / capacity.
C5_BufferUtilization ==
    LET u == MonitoringStats(mon, now)["buffer_utilization"]
    IN /\ FracLeq(<<0, 1>>, u)
       /\ FracLeq(u, <<1, 1>>)
       /\ FracEq(u, <<Min(Len(ValidFed), mon.buffer_size), mon.buffer_size>>)

\* C5 witness: get_monitoring_stats returns utilization 1 after more readings
\* than the capacity were ingested.
C5_Witness ==
    /\ MonitoringStats(mon, now)["buffer_utilization"] = <<mon.buffer_size, mon.buffer_size>>
    /\ MonitoringStats(mon, now)["total_readings"] > mon.buffer_size
    /\ Len(ValidFed) > mon.buffer_size

\* C8: a sensor whose readings end with a run of N anomalous ones has
\* consecutive_anomalies = N, and when N is at or above the threshold the alert
\* queue holds, after the next alert analysis, a consecutive_anomalies alert of
\* severity high that names the sensor and the count N.
C8_RunRaisesHighAlert ==
    \A k \in DOMAIN mon.sensor_states :
        LET sid == mon.sensor_states[k].id
            N == TrailingAnomalies(FedOf(sid))
        IN /\ mon.sensor_states[k].consecutive_anomalies = N
           /\ (last_op.op = "analyze_alerts" /\ N >= ConsecutiveAnomaliesRule) =>
                  \E i \in DOMAIN mon.alert_queue :
                      /\ mon.alert_queue[i].alert_type = "consecutive_anomalies"
                      /\ mon.alert_queue[i].severity = "high"
                      /\ mon.alert_queue[i].data.sensor_id = sid
                      /\ mon.alert_queue[i].data.count = N

\* C8 witness: an analysis ran after a sensor got more anomalous readings in a
\* row than the threshold, following a normal one.
C8_Witness ==
    /\ last_op.op = "analyze_alerts"
    /\ \E k \in DOMAIN mon.sensor_states :
          LET s == FedOf(mon.sensor_states[k].id)
          IN /\ TrailingAnomalies(s) >= ConsecutiveAnomaliesRule
             /\ Len(s) > TrailingAnomalies(s)
             /\ mon.alerts_raised >= 1

\* What get_monitoring_stats returns for a monitor nothing has happened to.
ZeroStats ==
    [is_monitoring |-> FALSE, uptime_seconds |-> 0, total_readings |-> 0,
     anomalies_detected |-> 0, alerts_raised |-> 0, anomaly_rate |-> <<0, 1>>,
     active_sensors |-> 0, timeout_sensors |-> 0,
     buffer_utilization |-> <<0, SmallBuffer>>, last_reading_time |-> NoTime]

C10_StopIdempotent ==
    [][last_op'.op = "stop_monitoring" =>
          /\ ~mon'.is_monitoring
          /\ ~mon.is_monitoring =>
                 <<mon, now, threads, fed, snap, ticks>>' = <<mon, now, threads, fed, snap, ticks>>]_vars

\* C10 witness: stop_monitoring was called on a stopped monitor whose loop
\* context had not left the loop yet.
C10_Witness ==
    /\ last_op.op = "stop_monitoring"
    /\ ~last_op.was_monitoring
    /\ \E i \in DOMAIN threads : threads[i] # "exited"

\* The timeout events for sensor sid among calls that went to the handler
\* registered at position h of on_sensor_failure.
TimeoutCallsFor(calls, sid, h) ==
    CountSeq(calls, LAMBDA c : /\ c.kind = "on_sensor_failure"
                               /\ c.pos = h
                               /\ c.event.sensor_id = sid)

\* C3: a timeout check moves every active sensor whose last_seen is older than
\* the timeout threshold to timeout and calls every on_sensor_failure handler
\* once for it; it calls no handler for any other sensor, and a sensor in
\* timeout stays there until a new reading of it is ingested.
C3_OneTimeoutPerSilence ==
    [][\A k \in DOMAIN mon.sensor_states :
          LET st == mon.sensor_states[k]
              overdue == /\ st.status = "active"
                         /\ st.last_seen # NoTime
                         /\ now - st.last_seen > SensorTimeoutRule
          IN /\ last_op'.op = "check_sensor_timeouts" =>
                    /\ overdue => mon'.sensor_states[k].status = "timeout"
                    /\ \A h \in DOMAIN mon.on_sensor_failure :
                           TimeoutCallsFor(NewCalls, st.id, h) = IF overdue THEN 1 ELSE 0
             /\ last_op'.op # "check_sensor_timeouts" =>
                    \A h \in DOMAIN mon.on_sensor_failure :
                        TimeoutCallsFor(NewCalls, st.id, h) = 0
             /\ (st.status = "timeout" /\ mon'.sensor_states[k].status # "timeout") =>
                    Len(SelectSeq(fed', LAMBDA r : r.sensor_id # None /\ Str(r.sensor_id) = st.id))
                        > Len(FedOf(st.id))]_vars

\* C3 witness: a timeout check ran some time after the one that reported a
\* sensor, the sensor sent nothing in between, and each handler got one event.
C3_Witness ==
    /\ last_op.op = "check_sensor_timeouts"
    /\ Len(mon.on_sensor_failure) = 2
    /\ \E k \in DOMAIN mon.sensor_states :
          /\ mon.sensor_states[k].status = "timeout"
          /\ Len(FedOf(mon.sensor_states[k].id)) = 1
          /\ \A h \in DOMAIN mon.on_sensor_failure :
                 TimeoutCallsFor(mon.calls, mon.sensor_states[k].id, h) = 1
          /\ \E c \in DOMAIN mon.calls :
                 /\ mon.calls[c].event.sensor_id = mon.sensor_states[k].id
                 /\ mon.calls[c].event.timestamp < now

\* The readings flagged is_anomaly_detected among the last RateWindow of buffer.
FlaggedInWindow(buffer) ==
    Cardinality({k \in DOMAIN buffer :
                    k > Len(buffer) - RateWindow /\ buffer[k].det = "True"})

RateAlerts(alerts) == SelectSeq(alerts, LAMBDA a : a.alert_type = "high_anomaly_rate")

C6_RateMatchesSnapshot ==
    last_op.op = "get_monitoring_stats" =>
        /\ FracEq(last_op.stats["anomaly_rate"],
                  <<last_op.stats["anomalies_detected"],
                    Max(1, last_op.stats["total_readings"])>>)
        /\ last_op.stats["total_readings"] = 0 => last_op.stats["anomaly_rate"][1] = 0


\* C11: start_monitoring called while is_monitoring is true changes nothing: no
\* loop context is added, and start_time, the network and detector references,
\* the counters and is_monitoring stay as they are.
C11_StartWhileRunningIsNoOp ==
    [][(last_op'.op = "start_monitoring" /\ mon.is_monitoring) =>
          <<mon, now, threads, fed, snap, ticks>>' = <<mon, now, threads, fed, snap, ticks>>]_vars

\* C11 witness: start_monitoring was called on a running monitor some time
\* after the session began, and there is still one loop context.
C11_Witness ==
    /\ last_op.op = "start_monitoring"
    /\ last_op.was_monitoring
    /\ mon.is_monitoring
    /\ now > mon.start_time
    /\ Len(threads) = 1


\* C12: add_callback with an event type that is not a key of the callbacks dict
\* raises to the caller and leaves every list as it was; with a known event type
\* it appends the handler at the end of that list and leaves the other lists.
C12_AddCallbackRejectsUnknown ==
    [][last_op'.op = "add_callback" =>
          LET e == last_op'.event_type
              known == {"on_anomaly", "on_alert", "on_sensor_failure"}
          IN /\ e \notin known =>
                    /\ last_op'.raised # "no"
                    /\ \A k \in known : mon'[k] = mon[k]
             /\ e \in known =>
                    /\ last_op'.raised = "no"
                    /\ mon'[e] = Append(mon[e], last_op'.callback)
                    /\ \A k \in known \ {e} : mon'[k] = mon[k]]_vars

\* C12 witness: an unknown event type was rejected after two different
\* handlers had been registered for alerts, which are still there in order.
C12_Witness ==
    /\ last_op.op = "add_callback"
    /\ last_op.event_type = "on_unknown"
    /\ last_op.raised = "ValueError"
    /\ mon.on_alert = <<"raises", "returns">>


\* C13: get_recent_anomalies(limit) and get_recent_alerts(limit) return the
\* min(limit, queue length) oldest events of their queue in queue order, remove
\* exactly those and keep the rest in order; with limit <= 0 or an empty queue
\* they return nothing and remove nothing. The other queue is not touched.
C13_GetRecentTakesOldest ==
    [][last_op'.op \in {"get_recent_anomalies", "get_recent_alerts"} =>
          LET own == IF last_op'.op = "get_recent_anomalies"
                     THEN "anomaly_queue" ELSE "alert_queue"
              other == IF last_op'.op = "get_recent_anomalies"
                       THEN "alert_queue" ELSE "anomaly_queue"
              q == mon[own]
              n == IF last_op'.limit <= 0 THEN 0 ELSE Min(last_op'.limit, Len(q))
          IN /\ last_op'.returned = SubSeq(q, 1, n)
             /\ mon'[own] = SubSeq(q, n + 1, Len(q))
             /\ mon'[other] = mon[other]]_vars

\* C13 witness: a consumer asked for one alert while the queue held alerts for
\* two sensors; it got the older one and the newer one is still queued.
C13_Witness ==
    /\ last_op.op = "get_recent_alerts"
    /\ last_op.limit = 1
    /\ Len(last_op.returned) = 1
    /\ mon.alert_queue # <<>>
    /\ last_op.returned[1].data.sensor_id # mon.alert_queue[1].data.sensor_id
    /\ mon.anomaly_queue # <<>>


\* C14: every step that moves a sensor from active to timeout raises an alert of
\* type sensor_timeout and severity high: alerts_raised grows and the alert is
\* appended to the alert queue.
C14_TimeoutRaisesAlert ==
    [][\A k \in DOMAIN mon.sensor_states :
          (mon.sensor_states[k].status = "active"
              /\ mon'.sensor_states[k].status = "timeout") =>
                /\ mon'.alerts_raised > mon.alerts_raised
                /\ \E a \in DOMAIN NewAlerts :
                       /\ NewAlerts[a].alert_type = "sensor_timeout"
                       /\ NewAlerts[a].severity = "high"]_vars


\* C15: the alerts raised in one execution have pairwise different alert_ids,
\* also two alerts of one type raised in the same tick for two sensors.
C15_AlertIdsUnique ==
    \A i, j \in DOMAIN mon.alert_queue :
        i # j => mon.alert_queue[i].alert_id # mon.alert_queue[j].alert_id

\* C16: the anomaly queue and the alert queue are bounded by the capacity the
\* monitor was built with, also when no consumer takes events from them.
C16_QueuesBounded ==
    /\ Len(mon.anomaly_queue) <= mon.buffer_size
    /\ Len(mon.alert_queue) <= mon.buffer_size


\* C17: whatever the order of the start_monitoring and stop_monitoring calls,
\* at most one context is running the monitoring loop; in particular no two
\* contexts are inside a tick (past the loop condition) at the same time.
C17_AtMostOneLoopContext ==
    Cardinality({i \in DOMAIN threads :
                    threads[i] \in {"timeouts", "alerts", "sleep", "pause"}}) <= 1


\* C18: while stop has been requested no further tick begins, and a loop that
\* is not started again finishes the tick it is in and exits, provided every
\* phase and sleep terminates.
C18_StopEndsLoop ==
    /\ [][(~mon.is_monitoring /\ threads # <<>>) => ticks' = ticks]_vars
    /\ (threads # <<>> /\ ~mon.is_monitoring)
           ~> (\A i \in DOMAIN threads : threads[i] = "exited")

\* C18 witness: the loop has exited after a tick that ingested readings, before
\* it used up the ticks of the behaviour.
C18_Witness ==
    /\ last_op.op = "loop_exit"
    /\ threads = <<"exited">>
    /\ ticks = 1
    /\ mon.total_readings > 0
    /\ ~mon.is_monitoring

\* The steps in which a phase of a tick raises.
RaisedOps == {"fetch_raised", "ingest_raised", "check_sensor_timeouts_raised",
              "analyze_alerts_raised"}

\* C19: a phase that raises sends the loop to its pause and not out of the
\* loop; the loop only ends when stop has been requested, and after the pause,
\* unless stop is requested, it begins another tick.
C19_ExceptionKeepsLoopRunning ==
    /\ [][\A i \in DOMAIN threads :
              /\ (last_op'.op \in RaisedOps /\ last_op'.thread = i) => threads'[i] = "pause"
              /\ (threads[i] # "exited" /\ threads'[i] = "exited") => ~mon.is_monitoring]_vars
    /\ \A n \in 1..(MaxTicks - 1) :
           (threads = <<"pause">> /\ ticks = n /\ mon.is_monitoring)
               ~> (ticks > n \/ ~mon.is_monitoring)

\* C19 witness: a second tick has begun although the first one, which took a
\* sensor to the alert threshold, ended before its alert analysis raised the
\* alert for that sensor.
C19_Witness ==
    /\ last_op.op = "ingest"
    /\ last_op.count = 1
    /\ ticks = 2
    /\ mon.is_monitoring
    /\ mon.alerts_raised = 0
    /\ \E k \in DOMAIN mon.sensor_states :
           mon.sensor_states[k].consecutive_anomalies > ConsecutiveAnomaliesRule

\* C20: a tick runs fetch and ingestion, then the timeout check, then the alert
\* analysis, then the sleep; a phase that raises sends the loop to its pause and
\* the phases after it are not run in that tick. Readings are ingested only by
\* the first phase and alerts are raised only by the alert analysis, which runs
\* once in every tick in which no earlier phase raised.
C20_PhasesInOrder ==
    [][/\ \A i \in DOMAIN threads :
              threads'[i] # threads[i] =>
                  LET from == threads[i]
                      to == threads'[i]
                      op == last_op'.op
                  IN \/ from = "while" /\ to = "timeouts" /\ op = "ingest"
                     \/ from = "while" /\ to = "pause" /\ op \in {"fetch_raised", "ingest_raised"}
                     \/ from = "while" /\ to = "exited" /\ op = "loop_exit"
                     \/ from = "timeouts" /\ to = "alerts" /\ op = "check_sensor_timeouts"
                     \/ from = "timeouts" /\ to = "pause" /\ op = "check_sensor_timeouts_raised"
                     \/ from = "alerts" /\ to = "sleep" /\ op = "analyze_alerts"
                     \/ from = "alerts" /\ to = "pause" /\ op = "analyze_alerts_raised"
                     \/ from \in {"sleep", "pause"} /\ to = "while" /\ op = "sleep"
       /\ fed' # fed => \E i \in DOMAIN threads : threads[i] = "while"
       /\ mon'.alerts_raised # mon.alerts_raised =>
              \E i \in DOMAIN threads : threads[i] = "alerts"]_vars

\* C20 witness: the timeout check of the second tick raised, so that tick goes
\* to its pause without alert analysis, after a first tick whose analysis ran
\* and raised an alert.
C20_Witness ==
    /\ last_op.op = "check_sensor_timeouts_raised"
    /\ threads = <<"pause">>
    /\ ticks = 2
    /\ mon.alerts_raised = 1

\* C20 as stated: alert analysis runs in every tick, also in one whose earlier
\* phase raised, so no tick goes to its pause from the fetch, the ingestion or
\* the timeout check.
C20_AnalysisInEveryTick ==
    [][\A i \in DOMAIN threads :
          threads[i] \in {"while", "timeouts"} => threads'[i] # "pause"]_vars

\* The readings the step under consideration handed to _process_readings.
NewFed == SubSeq(fed', Len(fed) + 1, Len(fed'))

\* C21: when predict_single raises for a reading, the reading is still counted
\* and stored, marked not anomalous with score 0.0; it adds nothing to
\* anomalies_detected, to the anomaly queue or to the on_anomaly calls, and the
\* readings after it in the batch are ingested as usual.
C21_ClassifierErrorIsolated ==
    [][(fed' # fed /\ mon.anomaly_detector = "trained") =>
          LET anomalous == CountSeq(NewFed, LAMBDA r : r.verdict = "anomaly")
              k == SensorIndex(mon'.sensor_states, "s1")
              h == mon'.sensor_states[k].recent_readings
              old == Len(h) - Len(NewFed)
          IN /\ mon'.total_readings = mon.total_readings + Len(NewFed)
             /\ mon'.anomalies_detected = mon.anomalies_detected + anomalous
             /\ Len(mon'.anomaly_queue) = Len(mon.anomaly_queue) + anomalous
             /\ Len(NewCalls) = Len(mon.on_anomaly) * anomalous
             /\ \A c \in DOMAIN NewCalls :
                    /\ NewCalls[c].kind = "on_anomaly"
                    /\ NewCalls[c].event.reading.verdict = "anomaly"
             /\ old >= 0
             /\ \A j \in DOMAIN NewFed :
                    /\ Raw(h[old + j]) = NewFed[j]
                    /\ h[old + j].det = (IF NewFed[j].verdict = "anomaly" THEN "True" ELSE "False")
                    /\ h[old + j].score = (IF NewFed[j].verdict = "raise" THEN "0.0" ELSE "score")]_vars

\* C21 witness: one batch of three readings whose first made predict_single
\* raise and whose second was anomalous: all three are counted, the first is
\* stored with score 0.0, and the one anomaly was queued and handed to the
\* registered handler.
C21_Witness ==
    /\ last_op.op = "ingest"
    /\ last_op.count = 3
    /\ Len(fed) = 3
    /\ fed[1].verdict = "raise"
    /\ fed[2].verdict = "anomaly"
    /\ mon.total_readings = 3
    /\ mon.anomalies_detected = 1
    /\ Len(mon.anomaly_queue) = 1
    /\ Len(mon.calls) = 1
    /\ mon.sensor_states[1].recent_readings[1].score = "0.0"

\* C22: after the ingestion of a batch whose last reading was not classified
\* anomalous (the classifier answered normal, raised, or was not asked), the
\* consecutive_anomalies counter of that reading's sensor is 0.
C22_CounterResetUnlessAnomalous ==
    [][(fed' # fed /\ NewFed[Len(NewFed)].sensor_id # None
                  /\ NewFed[Len(NewFed)].verdict # "anomaly") =>
          LET k == SensorIndex(mon'.sensor_states, Str(NewFed[Len(NewFed)].sensor_id))
          IN mon'.sensor_states[k].consecutive_anomalies = 0]_vars

\* The events the step under consideration produced for the handlers of one
\* kind: the anomaly events and alerts it queued, the sensors it timed out.
NewEvents(kind) ==
    IF kind = "on_anomaly"
    THEN SubSeq(mon'.anomaly_queue, Len(mon.anomaly_queue) + 1, Len(mon'.anomaly_queue))
    ELSE IF kind = "on_alert" THEN NewAlerts
    ELSE LET out == SelectSeq([k \in DOMAIN mon.sensor_states |-> k],
                        LAMBDA k : /\ mon.sensor_states[k].status = "active"
                                   /\ mon'.sensor_states[k].status = "timeout")
         IN [e \in DOMAIN out |-> mon.sensor_states[out[e]].id]

\* C23: for every anomaly event, alert and sensor timeout of a step, every
\* handler registered for its kind is called once, in registration order, with
\* that event, whether or not an earlier handler raised; the batch is ingested
\* to its end and the phase completes.
C23_AllCallbacksInOrder ==
    [][/\ SubSeq(mon'.calls, 1, Len(mon.calls)) = mon.calls
       /\ \A kind \in CallbackKinds :
              LET made == SelectSeq(NewCalls, LAMBDA c : c.kind = kind)
                  list == mon[kind]
                  events == NewEvents(kind)
              IN /\ Len(made) = Len(events) * Len(list)
                 /\ \A c \in DOMAIN made :
                        LET p == ((c - 1) % Len(list)) + 1
                            e == ((c - 1) \div Len(list)) + 1
                        IN /\ made[c].pos = p
                           /\ made[c].handler = list[p]
                           /\ IF kind = "on_sensor_failure"
                              THEN made[c].event.sensor_id = events[e]
                              ELSE made[c].event = events[e]
       /\ fed' # fed =>
              /\ last_op'.op = "ingest"
              /\ mon'.total_readings = mon.total_readings + Len(NewFed)
              /\ Len(NewEvents("on_anomaly")) = Len(NewFed)
       /\ NewCalls # <<>> =>
              last_op'.op \in {"ingest", "check_sensor_timeouts", "analyze_alerts"}]_vars

\* C23 witness: a batch of three anomalies was ingested with two handlers for
\* anomalies registered, the first of which raises: each anomaly was handed to
\* the raising handler and then to the other one.
C23_Witness ==
    /\ last_op.op = "ingest"
    /\ last_op.count = 3
    /\ mon.on_anomaly = <<"raises", "returns">>
    /\ mon.total_readings = 3
    /\ Len(mon.calls) = 6
    /\ \A c \in 1..6 :
           /\ mon.calls[c].handler = (IF c % 2 = 1 THEN "raises" ELSE "returns")
           /\ mon.calls[c].event = mon.anomaly_queue[(c + 1) \div 2]


\* C24: while the monitor has no detector or its detector is not trained,
\* predict_single is not called: the readings of a batch are counted, appended
\* as they came (no detection keys) to the data buffer and the sensor's
\* history, and set the sensor active with their timestamp; the anomaly
\* counter, the sensor's consecutive counter, the anomaly queue and the
\* callback calls stay as they were, and the call does not raise.
C24_NoPredictionUnlessTrained ==
    [][(fed' # fed /\ mon.anomaly_detector # "trained") =>
          LET k == SensorIndex(mon.sensor_states, "s1")
              k2 == SensorIndex(mon'.sensor_states, "s1")
              before == IF k = 0 THEN NewSensorState("s1") ELSE mon.sensor_states[k]
              after == mon'.sensor_states[k2]
          IN /\ last_op'.op \in {"ingest", "process_readings"}
             /\ mon'.total_readings = mon.total_readings + Len(NewFed)
             /\ mon'.data_buffer = Last(mon.data_buffer \o NewFed, mon.buffer_size)
             /\ k2 > 0
             /\ after.recent_readings = before.recent_readings \o NewFed
             /\ after.status = "active"
             /\ after.last_seen = NewFed[Len(NewFed)].timestamp
             /\ after.consecutive_anomalies = before.consecutive_anomalies
             /\ mon'.anomalies_detected = mon.anomalies_detected
             /\ mon'.anomaly_queue = mon.anomaly_queue
             /\ mon'.calls = mon.calls]_vars

\* C24 witness: an anomalous reading was fed to a monitor that had no detector
\* yet, then a session with an untrained detector ingested a reading for which
\* predict_single would raise: both are counted and stored without detection
\* keys and no anomaly was counted.
C24_Witness ==
    /\ last_op.op = "ingest"
    /\ mon.anomaly_detector = "untrained"
    /\ Len(fed) = 2
    /\ fed[1].verdict = "anomaly"
    /\ fed[2].verdict = "raise"
    /\ mon.total_readings = 2
    /\ mon.anomalies_detected = 0
    /\ mon.anomaly_queue = <<>>
    /\ mon.data_buffer = fed
    /\ mon.sensor_states[1].status = "active"

\* C25: when _check_sensor_timeouts has run, every sensor whose status is
\* active has a last_seen that is at most the timeout threshold old.
C25_ActiveWithinWindowAfterCheck ==
    last_op.op = "check_sensor_timeouts" =>
        \A k \in DOMAIN mon.sensor_states :
            mon.sensor_states[k].status = "active" =>
                now - mon.sensor_states[k].last_seen <= SensorTimeoutRule

\* C25 witness: a timeout check has just left one sensor active whose last
\* reading is exactly the threshold old and has timed out another one.
C25_Witness ==
    /\ last_op.op = "check_sensor_timeouts"
    /\ \E k \in DOMAIN mon.sensor_states :
           /\ mon.sensor_states[k].status = "active"
           /\ now - mon.sensor_states[k].last_seen = SensorTimeoutRule
    /\ \E k \in DOMAIN mon.sensor_states :
           /\ mon.sensor_states[k].status = "timeout"
           /\ now - mon.sensor_states[k].last_seen > SensorTimeoutRule

\* C25 as stated: in every state, every sensor whose status is active has a
\* last_seen that is at most the timeout threshold old.
C25_ActiveWithinWindow ==
    \A k \in DOMAIN mon.sensor_states :
        mon.sensor_states[k].status = "active" =>
            now - mon.sensor_states[k].last_seen <= SensorTimeoutRule

\* C26: a call of get_sensor_summary made while the loop ingests readings
\* returns without raising.
C26_SummaryCompletes ==
    last_op.op = "get_sensor_summary" => last_op.raised = "no"

\* C27: a call start_monitoring(network, detector, background=False) returns
\* to its caller also when no other context calls stop_monitoring: once the
\* call is made, its context leaves the loop or, at the latest, some context
\* has called stop_monitoring.
C27_ForegroundStartReturns ==
    (threads # <<>>) ~> (threads = <<"exited">> \/ ~mon.is_monitoring)

\* C28: a reading without sensor_id changes nothing and does not end the
\* batch: a batch of such readings only leaves the monitor as it was, and a
\* batch that holds some has the effect of its other readings alone, which are
\* all counted, buffered in order, entered in their sensor's history and
\* classified.
C28_MissingIdChangesNothing ==
    [][fed' # fed =>
          LET valid == SelectSeq(NewFed, LAMBDA r : r.sensor_id # None)
              anomalous == CountSeq(valid, LAMBDA r : r.verdict = "anomaly")
              buffer == [j \in DOMAIN mon'.data_buffer |-> Raw(mon'.data_buffer[j])]
              before == [j \in DOMAIN mon.data_buffer |-> Raw(mon.data_buffer[j])]
          IN /\ last_op'.op = "ingest"
             /\ valid = <<>> => mon' = mon
             /\ mon'.total_readings = mon.total_readings + Len(valid)
             /\ buffer = Last(before \o valid, mon.buffer_size)
             /\ mon'.anomalies_detected = mon.anomalies_detected + anomalous
             /\ Len(mon'.anomaly_queue) = Len(mon.anomaly_queue) + anomalous
             /\ mon'.alerts_raised = mon.alerts_raised
             /\ mon'.alert_queue = mon.alert_queue
             /\ {mon'.sensor_states[k].id : k \in DOMAIN mon'.sensor_states}
                    = {mon.sensor_states[k].id : k \in DOMAIN mon.sensor_states}
                          \cup {Str(valid[j].sensor_id) : j \in DOMAIN valid}
             /\ \A k \in DOMAIN mon'.sensor_states :
                    LET sid == mon'.sensor_states[k].id
                        k0 == SensorIndex(mon.sensor_states, sid)
                        old == IF k0 = 0 THEN <<>> ELSE mon.sensor_states[k0].recent_readings
                        mine == SelectSeq(valid, LAMBDA r : Str(r.sensor_id) = sid)
                        h == mon'.sensor_states[k].recent_readings
                    IN /\ [j \in DOMAIN h |-> Raw(h[j])]
                              = [j \in DOMAIN old |-> Raw(old[j])] \o mine
                       /\ mine = <<>> => mon'.sensor_states[k] = mon.sensor_states[k0]]_vars

\* C28 witness: a batch of three readings whose second had no sensor_id: the
\* first and the third are the two readings counted and buffered, the third
\* one as an anomaly.
C28_Witness ==
    /\ last_op.op = "ingest"
    /\ last_op.count = 3
    /\ Len(fed) = 3
    /\ fed[1].sensor_id # None
    /\ fed[2].sensor_id = None
    /\ fed[3].sensor_id # None
    /\ fed[3].verdict = "anomaly"
    /\ mon.total_readings = 2
    /\ mon.anomalies_detected = 1
    /\ Len(mon.data_buffer) = 2
    /\ Raw(mon.data_buffer[1]) = fed[1]
    /\ Raw(mon.data_buffer[2]) = fed[3]

C30_AnomaliesAtMostReadings ==
    /\ mon.anomalies_detected <= mon.total_readings
    /\ last_op.op = "get_monitoring_stats" =>
           FracLeq(last_op.stats["anomaly_rate"], <<1, 1>>)

\* C30 witness: statistics read while every reading ingested so far, more than
\* one, was an anomaly: the reported rate is exactly 1.
C30_Witness ==
    /\ last_op.op = "get_monitoring_stats"
    /\ mon.total_readings >= 2
    /\ mon.anomalies_detected = mon.total_readings
    /\ FracEq(last_op.stats["anomaly_rate"], <<1, 1>>)

====
